---- MODULE Spec2Model ----
(***************************************************************************)
(* Model of verifier.cpp: the signature benchmarking harness.              *)
(*                                                                         *)
(* Strings are sequences of one-character strings, so that to_string,     *)
(* atoi, string::resize, getline and the CSV encoder are modelled by what *)
(* they do to characters.  The Crypto++ primitives (key generation,       *)
(* Validate, SignMessage, VerifyMessage) and the steady clock are the      *)
(* environment: their outcomes are fixed per run by the oracles `fault'    *)
(* and `opCost', chosen in the initial state, because the library is a     *)
(* deterministic function of its inputs and of the generator's stream.     *)
(* assert() is modelled as compiled in (the build line of verifier.cpp     *)
(* does not define NDEBUG): a failed assertion aborts the process.         *)
(***************************************************************************)
EXTENDS Integers, Sequences, FiniteSets, TLC

VARIABLES
    argv,           \* argv[1..] of each run (argv[0] left out): sequence of strings
    stdin,          \* the bytes supplied on standard input
    fault,          \* environment: which library check (if any) fails in this run
    opCost,         \* environment: nanoseconds one timed library call takes
    pc,             \* position of the run in main / the driver / the protocol
    securityLevel,  \* main: int securityLevel
    rngSeed,        \* main: string rngSeed
    fullLine,       \* main: string fullLine
    inputLength,    \* main: int inputLength
    stdinRead,      \* whether main has consumed standard input
    s_globalRNG,    \* the shared generator: times keyed, key, iv, draws made
    securityIndex,  \* main: int securityIndex
    scheme,         \* which adapter of ProfileSignatureSchemes is running (0: none yet)
    description,    \* the adapter's description string
    keyBits,        \* the size the adapter gave to its key generator
    fail,           \* ProfileSignatureValidate: bool fail
    clock,          \* std::chrono::steady_clock
    cout,           \* the lines written to standard output
    draws,          \* the draws made from the shared generator, in order
    exitStatus      \* -1 while running; 0, 1 or 134 (SIGABRT) once terminated

vars == <<argv, stdin, fault, opCost, pc, securityLevel, rngSeed, fullLine,
          inputLength, stdinRead, s_globalRNG, securityIndex, scheme,
          description, keyBits, fail, clock, cout, draws, exitStatus>>

Runs == {1, 2}

(***************************************************************************)
(* The security level table.                                               *)
(***************************************************************************)
NUMBER_OF_SECURITY_LENGTHS == 5

securityLevels == (0 :> 80) @@ (1 :> 112) @@ (2 :> 128) @@ (3 :> 192) @@ (4 :> 256)

finiteFieldSizes == (0 :> 1024) @@ (1 :> 2048) @@ (2 :> 3072) @@ (3 :> 7680) @@ (4 :> 15360)

finiteFieldSubgroupSizes == (0 :> 160) @@ (1 :> 224) @@ (2 :> 256) @@ (3 :> 384) @@ (4 :> 511)

factorizationGroupSizes == (0 :> 1024) @@ (1 :> 2048) @@ (2 :> 3072) @@ (3 :> 7680) @@ (4 :> 15360)

ellipticCurveSizes == (0 :> 160) @@ (1 :> 224) @@ (2 :> 256) @@ (3 :> 384) @@ (4 :> 512)

\* a seed length one byte too long
rngSeedLength_Long == 16 + 1

rngSeedLength == 16

\* GF2NT gf2n(191, 9, 0): the degree of the hardcoded curve's field
ECDSAFieldBits == 191

(***************************************************************************)
(* Characters and the standard conversions.                                *)
(***************************************************************************)
Digits == <<"0", "1", "2", "3", "4", "5", "6", "7", "8", "9">>

IsDigit(c) == \E d \in 1..10 : Digits[d] = c

DigitValue(c) == (CHOOSE d \in 1..10 : Digits[d] = c) - 1

IsSpace(c) == c \in {" ", "\t", "\n"}

RECURSIVE NatToString(_)
NatToString(n) ==
    IF n < 10 THEN <<Digits[n + 1]>>
    ELSE NatToString(n \div 10) \o <<Digits[(n % 10) + 1]>>

\* std::to_string of an int or a size_t
to_string(n) == IF n < 0 THEN <<"-">> \o NatToString(0 - n) ELSE NatToString(n)

RECURSIVE AtoiDigits(_, _)
AtoiDigits(s, acc) ==
    IF s = <<>> \/ ~IsDigit(Head(s)) THEN acc
    ELSE AtoiDigits(Tail(s), acc * 10 + DigitValue(Head(s)))

RECURSIVE SkipSpace(_)
SkipSpace(s) == IF s # <<>> /\ IsSpace(Head(s)) THEN SkipSpace(Tail(s)) ELSE s

\* atoi: leading white space, an optional sign, then digits up to the first
\* character that is not one; 0 when there are no digits
atoi(str) ==
    LET s == SkipSpace(str)
    IN  IF s # <<>> /\ Head(s) = "-" THEN 0 - AtoiDigits(Tail(s), 0)
        ELSE IF s # <<>> /\ Head(s) = "+" THEN AtoiDigits(Tail(s), 0)
        ELSE AtoiDigits(s, 0)

\* std::string::resize(n): truncate, or pad with the zero character
resize(s, n) ==
    IF Len(s) >= n THEN SubSeq(s, 1, n)
    ELSE s \o [i \in 1..(n - Len(s)) |-> "NUL"]

\* while (getline(cin, line)) fullLine.append(line);
RECURSIVE getlineLoop(_, _)
getlineLoop(stream, acc) ==
    IF stream = <<>> THEN acc
    ELSE IF Head(stream) = "\n" THEN getlineLoop(Tail(stream), acc)
    ELSE getlineLoop(Tail(stream), Append(acc, Head(stream)))

(***************************************************************************)
(* The description / CSV encoder.                                          *)
(***************************************************************************)
generateDetailedDescription(algorithmName, secLevel, keyLength, inLength) ==
    algorithmName \o <<",">> \o to_string(secLevel) \o <<",">>
        \o to_string(keyLength) \o <<",">> \o to_string(inLength)

\* the encoder with its last two fields exchanged
generateCSVString_Swapped(desc, operation, delta) ==
    desc \o <<",">> \o to_string(delta) \o <<",">> \o operation

generateCSVString(desc, operation, delta) ==
    desc \o <<",">> \o operation \o <<",">> \o to_string(delta)

showUsage ==
    << <<"u","s","a","g","e",":"," ","v","e","r","i","f","i","e","r"," ","<","s","e","c","u","r","i","t","y","-","l","e","v","e","l",">"," ","<","r","n","g","-","s","e","e","d",">">>,
       <<" "," "," "," "," "," "," ","s","e","c","u","r","i","t","y","-","l","e","v","e","l",":"," ","t","h","e"," ","A","E","S"," ","s","e","c","u","r","i","t","y"," ","e","q","u","i","v","a","l","e","n","t"," ","l","e","v","e","l">>,
       <<" "," "," "," "," "," "," ","r","n","g","-","s","e","e","d",":"," "," "," "," "," "," "," ","t","h","e"," ","s","e","e","d"," ","f","o","r"," ","t","h","e"," ","g","l","o","b","a","l"," ","R","N","G">> >>

(***************************************************************************)
(* The security level lookup of main.                                      *)
(***************************************************************************)
RECURSIVE indexScanShort(_, _)
indexScanShort(level, i) ==
    IF i >= NUMBER_OF_SECURITY_LENGTHS - 1 THEN 0
    ELSE IF securityLevels[i] = level THEN i
    ELSE indexScanShort(level, i + 1)

\* the scan with its bound one short: the last table row is never matched
indexFor_ShortScan(level) == indexScanShort(level, 0)

RECURSIVE indexScan(_, _)
indexScan(level, i) ==
    IF i >= NUMBER_OF_SECURITY_LENGTHS THEN 0
    ELSE IF securityLevels[i] = level THEN i
    ELSE indexScan(level, i + 1)

indexFor(level) == indexScan(level, 0)

(***************************************************************************)
(* The library and the clock, as the harness sees them.                    *)
(***************************************************************************)
NoFault == [scheme |-> 0, step |-> "none"]

Faults == {NoFault} \cup [scheme : 1..8, step : {"pub", "priv", "verify"}]

\* pub.GetMaterial().Validate(GlobalRNG(), 2)
PubValidate(r) == ~(fault[r].scheme = scheme[r] /\ fault[r].step = "pub")

\* priv.GetMaterial().Validate(GlobalRNG(), 2)
PrivValidate(r) == ~(fault[r].scheme = scheme[r] /\ fault[r].step = "priv")

\* pub.VerifyMessage(input, inputLength, signature, signatureLength)
VerifyMessage(r) == ~(fault[r].scheme = scheme[r] /\ fault[r].step = "verify")

\* OFB_Mode<AES>::Encryption before SetKeyWithIV
UnkeyedRNG == [keyed |-> 0, key |-> <<>>, iv |-> <<>>, pos |-> 0]

\* s_globalRNG.SetKeyWithIV(key, length, iv): the first `length' bytes of each
SetKeyWithIV(rng, key, length, iv) ==
    [keyed |-> rng.keyed + 1, key |-> SubSeq(key, 1, length),
     iv |-> SubSeq(iv, 1, length), pos |-> 0]

\* One GenerateBlock request of a library call on GlobalRNG(): the request is
\* served from the generator's current state and advances it.
RECURSIVE GlobalRNG(_, _, _, _)
GlobalRNG(rng, log, by, whats) ==
    IF whats = <<>> THEN [rng |-> rng, log |-> log]
    ELSE GlobalRNG([rng EXCEPT !.pos = @ + 1],
                   Append(log, [by |-> by, what |-> Head(whats), keyed |-> rng.keyed,
                                key |-> rng.key, iv |-> rng.iv, pos |-> rng.pos]),
                   by, Tail(whats))

Terminated(r) == pc[r] \in {"off", "exited", "aborted", "done"}

\* runs of the harness are separate processes, started one after the other
Ready(r) == \A q \in Runs : q < r => Terminated(q)

(***************************************************************************)
(* main                                                                    *)
(***************************************************************************)
\* the argument check accepting surplus arguments (argc < 3)
Main_ArgCheck_TooFewOnly(r) ==
    /\ Ready(r) /\ pc[r] = "main"
    /\ IF Len(argv[r]) + 1 < 3
       THEN /\ cout' = [cout EXCEPT ![r] = @ \o showUsage]
            /\ exitStatus' = [exitStatus EXCEPT ![r] = 1]
            /\ pc' = [pc EXCEPT ![r] = "exited"]
            /\ UNCHANGED <<securityLevel, rngSeed>>
       ELSE /\ securityLevel' = [securityLevel EXCEPT ![r] = atoi(argv[r][1])]
            /\ rngSeed' = [rngSeed EXCEPT ![r] = argv[r][2]]
            /\ pc' = [pc EXCEPT ![r] = "read"]
            /\ UNCHANGED <<cout, exitStatus>>
    /\ UNCHANGED <<argv, stdin, fault, opCost, fullLine, inputLength, stdinRead,
                   s_globalRNG, securityIndex, scheme, description, keyBits,
                   fail, clock, draws>>

\* if (argc != 3) { showUsage(); return 1; }  then atoi(argv[1]), rngSeed(argv[2])
Main_ArgCheck(r) ==
    /\ Ready(r) /\ pc[r] = "main"
    /\ IF Len(argv[r]) + 1 # 3
       THEN /\ cout' = [cout EXCEPT ![r] = @ \o showUsage]
            /\ exitStatus' = [exitStatus EXCEPT ![r] = 1]
            /\ pc' = [pc EXCEPT ![r] = "exited"]
            /\ UNCHANGED <<securityLevel, rngSeed>>
       ELSE /\ securityLevel' = [securityLevel EXCEPT ![r] = atoi(argv[r][1])]
            /\ rngSeed' = [rngSeed EXCEPT ![r] = argv[r][2]]
            /\ pc' = [pc EXCEPT ![r] = "read"]
            /\ UNCHANGED <<cout, exitStatus>>
    /\ UNCHANGED <<argv, stdin, fault, opCost, fullLine, inputLength, stdinRead,
                   s_globalRNG, securityIndex, scheme, description, keyBits,
                   fail, clock, draws>>

\* the getline loop, inputData and inputLength
Main_ReadInput(r) ==
    /\ Ready(r) /\ pc[r] = "read"
    /\ fullLine' = [fullLine EXCEPT ![r] = getlineLoop(stdin[r], <<>>)]
    /\ inputLength' = [inputLength EXCEPT ![r] = Len(fullLine'[r])]
    /\ stdinRead' = [stdinRead EXCEPT ![r] = TRUE]
    /\ pc' = [pc EXCEPT ![r] = "seed"]
    /\ UNCHANGED <<argv, stdin, fault, opCost, securityLevel, rngSeed, s_globalRNG,
                   securityIndex, scheme, description, keyBits, fail, clock,
                   cout, draws, exitStatus>>

\* main going on without keying the generator
Main_SeedRNG_Skipped(r) ==
    /\ Ready(r) /\ pc[r] = "seed"
    /\ pc' = [pc EXCEPT ![r] = "lookup"]
    /\ UNCHANGED <<argv, stdin, fault, opCost, securityLevel, rngSeed, fullLine,
                   inputLength, stdinRead, s_globalRNG, securityIndex, scheme,
                   description, keyBits, fail, clock, cout, draws, exitStatus>>

\* rngSeed.resize(rngSeedLength); s_globalRNG.SetKeyWithIV(seed, rngSeedLength, seed)
Main_SeedRNG(r) ==
    /\ Ready(r) /\ pc[r] = "seed"
    /\ rngSeed' = [rngSeed EXCEPT ![r] = resize(@, rngSeedLength)]
    /\ s_globalRNG' = [s_globalRNG EXCEPT
                         ![r] = SetKeyWithIV(@, rngSeed'[r], rngSeedLength, rngSeed'[r])]
    /\ pc' = [pc EXCEPT ![r] = "lookup"]
    /\ UNCHANGED <<argv, stdin, fault, opCost, securityLevel, fullLine,
                   inputLength, stdinRead, securityIndex, scheme, description,
                   keyBits, fail, clock, cout, draws, exitStatus>>

\* the scan for securityIndex, then the call of ProfileSignatureSchemes
Main_Lookup(r) ==
    /\ Ready(r) /\ pc[r] = "lookup"
    /\ securityIndex' = [securityIndex EXCEPT ![r] = indexFor(securityLevel[r])]
    /\ pc' = [pc EXCEPT ![r] = "driver"]
    /\ UNCHANGED <<argv, stdin, fault, opCost, securityLevel, rngSeed, fullLine,
                   inputLength, stdinRead, s_globalRNG, scheme, description,
                   keyBits, fail, clock, cout, draws, exitStatus>>

\* main falls off its end: exit status 0
Main_Return(r) ==
    /\ Ready(r) /\ pc[r] = "mainret"
    /\ exitStatus' = [exitStatus EXCEPT ![r] = 0]
    /\ pc' = [pc EXCEPT ![r] = "done"]
    /\ UNCHANGED <<argv, stdin, fault, opCost, securityLevel, rngSeed, fullLine,
                   inputLength, stdinRead, s_globalRNG, securityIndex, scheme,
                   description, keyBits, fail, clock, cout, draws>>

(***************************************************************************)
(* The driver: the eight adapters in their declared order.                 *)
(***************************************************************************)
NumberOfSchemes == 8

\* the driver with its last adapter left out
ProfileSignatureSchemes_DropLast(r) ==
    /\ Ready(r) /\ pc[r] = "driver"
    /\ IF scheme[r] < NumberOfSchemes - 1
       THEN /\ scheme' = [scheme EXCEPT ![r] = @ + 1]
            /\ pc' = [pc EXCEPT ![r] = "adapter"]
       ELSE /\ pc' = [pc EXCEPT ![r] = "mainret"]
            /\ UNCHANGED scheme
    /\ UNCHANGED <<argv, stdin, fault, opCost, securityLevel, rngSeed, fullLine,
                   inputLength, stdinRead, s_globalRNG, securityIndex,
                   description, keyBits, fail, clock, cout, draws, exitStatus>>

ProfileSignatureSchemes(r) ==
    /\ Ready(r) /\ pc[r] = "driver"
    /\ IF scheme[r] < NumberOfSchemes
       THEN /\ scheme' = [scheme EXCEPT ![r] = @ + 1]
            /\ pc' = [pc EXCEPT ![r] = "adapter"]
       ELSE /\ pc' = [pc EXCEPT ![r] = "mainret"]
            /\ UNCHANGED scheme
    /\ UNCHANGED <<argv, stdin, fault, opCost, securityLevel, rngSeed, fullLine,
                   inputLength, stdinRead, s_globalRNG, securityIndex,
                   description, keyBits, fail, clock, cout, draws, exitStatus>>

(***************************************************************************)
(* The scheme adapters.  Each builds its description, generates its signer *)
(* from the shared generator, derives the verifier and enters the timed    *)
(* validation protocol.                                                    *)
(***************************************************************************)
Adapter(r, algorithmName, keyLength, keygen, bits) ==
    /\ Ready(r) /\ pc[r] = "adapter"
    /\ description' = [description EXCEPT ![r] =
           generateDetailedDescription(algorithmName, securityLevels[securityIndex[r]],
                                       keyLength, inputLength[r])]
    /\ LET g == GlobalRNG(s_globalRNG[r], draws[r], scheme[r], keygen)
       IN  /\ s_globalRNG' = [s_globalRNG EXCEPT ![r] = g.rng]
           /\ draws' = [draws EXCEPT ![r] = g.log]
    /\ keyBits' = [keyBits EXCEPT ![r] = bits]
    /\ pc' = [pc EXCEPT ![r] = "validate"]
    /\ UNCHANGED <<argv, stdin, fault, opCost, securityLevel, rngSeed, fullLine,
                   inputLength, stdinRead, securityIndex, scheme, fail, clock,
                   cout, exitStatus>>

ValidateRSA(r) ==
    /\ scheme[r] = 1
    /\ Adapter(r, <<"R","S","A">>, factorizationGroupSizes[securityIndex[r]],
               << <<"keygen", factorizationGroupSizes[securityIndex[r]]>> >>,
               factorizationGroupSizes[securityIndex[r]])

ValidateNR(r) ==
    /\ scheme[r] = 2
    /\ Adapter(r, <<"N","R">>, factorizationGroupSizes[securityIndex[r]],
               << <<"keygen", finiteFieldSubgroupSizes[securityIndex[r]]>> >>,
               finiteFieldSubgroupSizes[securityIndex[r]])

\* the adapter generating its key with the subgroup size
ValidateDSA_Subgroup(r) ==
    /\ scheme[r] = 3
    /\ Adapter(r, <<"D","S","A">>, factorizationGroupSizes[securityIndex[r]],
               << <<"keygen", finiteFieldSubgroupSizes[securityIndex[r]]>> >>,
               finiteFieldSubgroupSizes[securityIndex[r]])

ValidateDSA(r) ==
    /\ scheme[r] = 3
    /\ Adapter(r, <<"D","S","A">>, factorizationGroupSizes[securityIndex[r]],
               << <<"keygen", factorizationGroupSizes[securityIndex[r]]>> >>,
               factorizationGroupSizes[securityIndex[r]])

ValidateLUC(r) ==
    /\ scheme[r] = 4
    /\ Adapter(r, <<"L","U","C">>, factorizationGroupSizes[securityIndex[r]],
               << <<"keygen", factorizationGroupSizes[securityIndex[r]]>> >>,
               factorizationGroupSizes[securityIndex[r]])

ValidateLUC_DL(r) ==
    /\ scheme[r] = 5
    /\ Adapter(r, <<"L","U","C","-","D","L">>, finiteFieldSizes[securityIndex[r]],
               << <<"keygen", finiteFieldSizes[securityIndex[r]]>> >>,
               finiteFieldSizes[securityIndex[r]])

ValidateRabin(r) ==
    /\ scheme[r] = 6
    /\ Adapter(r, <<"R","a","b","i","n">>, factorizationGroupSizes[securityIndex[r]],
               << <<"keygen", factorizationGroupSizes[securityIndex[r]]>> >>,
               factorizationGroupSizes[securityIndex[r]])

ValidateRW(r) ==
    /\ scheme[r] = 7
    /\ Adapter(r, <<"R","W">>, factorizationGroupSizes[securityIndex[r]],
               << <<"keygen", factorizationGroupSizes[securityIndex[r]]>> >>,
               factorizationGroupSizes[securityIndex[r]])

\* the signer is built from the hardcoded curve, base point, order and private
\* scalar: nothing is drawn from the generator
ValidateECDSA(r) ==
    /\ scheme[r] = 8
    /\ Adapter(r, <<"E","C","D","S","A">>, 1, <<>>, ECDSAFieldBits)

(***************************************************************************)
(* ProfileSignatureValidate: the timed validation protocol.                *)
(***************************************************************************)
SIGABRT == 134

\* the validation step with its assertion compiled out
ProfileSignatureValidate_Validate_NoAssert(r) ==
    /\ Ready(r) /\ pc[r] = "validate"
    /\ LET whats == IF PubValidate(r)
                    THEN << <<"validate-pub", 2>>, <<"validate-priv", 2>> >>
                    ELSE << <<"validate-pub", 2>> >>
           g == GlobalRNG(s_globalRNG[r], draws[r], scheme[r], whats)
       IN  /\ s_globalRNG' = [s_globalRNG EXCEPT ![r] = g.rng]
           /\ draws' = [draws EXCEPT ![r] = g.log]
    /\ fail' = [fail EXCEPT ![r] = ~PubValidate(r) \/ ~PrivValidate(r)]
    /\ pc' = [pc EXCEPT ![r] = "sign"]
    /\ UNCHANGED <<argv, stdin, fault, opCost, securityLevel, rngSeed, fullLine,
                   inputLength, stdinRead, securityIndex, scheme, description,
                   keyBits, clock, cout, exitStatus>>

\* fail = !pub...Validate(GlobalRNG(), 2) || !priv...Validate(GlobalRNG(), 2);
\* assert(pass && !fail);
ProfileSignatureValidate_Validate(r) ==
    /\ Ready(r) /\ pc[r] = "validate"
    /\ LET whats == IF PubValidate(r)
                    THEN << <<"validate-pub", 2>>, <<"validate-priv", 2>> >>
                    ELSE << <<"validate-pub", 2>> >>
           g == GlobalRNG(s_globalRNG[r], draws[r], scheme[r], whats)
       IN  /\ s_globalRNG' = [s_globalRNG EXCEPT ![r] = g.rng]
           /\ draws' = [draws EXCEPT ![r] = g.log]
    /\ fail' = [fail EXCEPT ![r] = ~PubValidate(r) \/ ~PrivValidate(r)]
    /\ IF fail'[r]
       THEN /\ pc' = [pc EXCEPT ![r] = "aborted"]
            /\ exitStatus' = [exitStatus EXCEPT ![r] = SIGABRT]
       ELSE /\ pc' = [pc EXCEPT ![r] = "sign"]
            /\ UNCHANGED exitStatus
    /\ UNCHANGED <<argv, stdin, fault, opCost, securityLevel, rngSeed, fullLine,
                   inputLength, stdinRead, securityIndex, scheme, description,
                   keyBits, clock, cout>>

\* the timed SignMessage and the sign record
ProfileSignatureValidate_Sign(r) ==
    /\ Ready(r) /\ pc[r] = "sign"
    /\ LET signStartTime == clock[r]
           g == GlobalRNG(s_globalRNG[r], draws[r], scheme[r],
                          << <<"sign", inputLength[r]>> >>)
           signEndTime == clock[r] + opCost[r].sign
           signNanoSeconds == signEndTime - signStartTime
       IN  /\ s_globalRNG' = [s_globalRNG EXCEPT ![r] = g.rng]
           /\ draws' = [draws EXCEPT ![r] = g.log]
           /\ clock' = [clock EXCEPT ![r] = signEndTime]
           /\ cout' = [cout EXCEPT ![r] = Append(@,
                  generateCSVString(description[r], <<"s","i","g","n">>, signNanoSeconds))]
    /\ pc' = [pc EXCEPT ![r] = "verify"]
    /\ UNCHANGED <<argv, stdin, fault, opCost, securityLevel, rngSeed, fullLine,
                   inputLength, stdinRead, securityIndex, scheme, description,
                   keyBits, fail, exitStatus>>

\* the verify step asserting before it writes its record
ProfileSignatureValidate_Verify_AssertFirst(r) ==
    /\ Ready(r) /\ pc[r] = "verify"
    /\ fail' = [fail EXCEPT ![r] = ~VerifyMessage(r)]
    /\ LET verifyStartTime == clock[r]
           verifyEndTime == clock[r] + opCost[r].verify
           verifyNanoSeconds == verifyEndTime - verifyStartTime
       IN  /\ clock' = [clock EXCEPT ![r] = verifyEndTime]
           /\ IF fail'[r]
              THEN /\ pc' = [pc EXCEPT ![r] = "aborted"]
                   /\ exitStatus' = [exitStatus EXCEPT ![r] = SIGABRT]
                   /\ UNCHANGED cout
              ELSE /\ cout' = [cout EXCEPT ![r] = Append(@,
                          generateCSVString(description[r], <<"v","e","r","i","f","y">>,
                                            verifyNanoSeconds))]
                   /\ pc' = [pc EXCEPT ![r] = "driver"]
                   /\ UNCHANGED exitStatus
    /\ UNCHANGED <<argv, stdin, fault, opCost, securityLevel, rngSeed, fullLine,
                   inputLength, stdinRead, s_globalRNG, securityIndex, scheme,
                   description, keyBits, draws>>

\* the timed VerifyMessage, the verify record, then assert(pass && !fail) and
\* the adapter's own assert(pass); return pass;
ProfileSignatureValidate_Verify(r) ==
    /\ Ready(r) /\ pc[r] = "verify"
    /\ LET verifyStartTime == clock[r]
           verifyEndTime == clock[r] + opCost[r].verify
           verifyNanoSeconds == verifyEndTime - verifyStartTime
       IN  /\ clock' = [clock EXCEPT ![r] = verifyEndTime]
           /\ cout' = [cout EXCEPT ![r] = Append(@,
                  generateCSVString(description[r], <<"v","e","r","i","f","y">>,
                                    verifyNanoSeconds))]
    /\ fail' = [fail EXCEPT ![r] = ~VerifyMessage(r)]
    /\ IF fail'[r]
       THEN /\ pc' = [pc EXCEPT ![r] = "aborted"]
            /\ exitStatus' = [exitStatus EXCEPT ![r] = SIGABRT]
       ELSE /\ pc' = [pc EXCEPT ![r] = "driver"]
            /\ UNCHANGED exitStatus
    /\ UNCHANGED <<argv, stdin, fault, opCost, securityLevel, rngSeed, fullLine,
                   inputLength, stdinRead, s_globalRNG, securityIndex, scheme,
                   description, keyBits, draws>>

(***************************************************************************)
(* Inputs and specifications.                                              *)
(***************************************************************************)
MaxElapsed == 12

CostSet == { [sign |-> 0, verify |-> 0],
             [sign |-> 7, verify |-> MaxElapsed],
             [sign |-> MaxElapsed, verify |-> 1] }

LevelArgs == { <<"8","0">>, <<"1","1","2">>, <<"1","2","8">>, <<"1","9","2">>,
               <<"2","5","6">>, <<"9","9","9">>, <<"0">>, <<"-","5">>,
               <<"a","b","c">>, <<" ","1","2","8","x">> }

Seed16 == <<"0","1","2","3","4","5","6","7","8","9","a","b","c","d","e","f">>

SeedArgs == { <<"s","e","e","d">>, Seed16 \o <<"X">> }

PairSeedArgs == SeedArgs \cup { Seed16, Seed16 \o <<"Y">> }

ArgvSet == { <<>>, << <<"8","0">> >>, << <<"8","0">>, Seed16, <<"x">> >> }
               \cup { <<l, s>> : l \in LevelArgs, s \in SeedArgs }

StdinSet == { <<>>, <<"h","e","l","l","o">>, <<"h","i","\n","y","o","u","\n">> }

InitRun(start) ==
    /\ pc = [r \in Runs |-> start[r]]
    /\ securityLevel = [r \in Runs |-> 0]
    /\ rngSeed = [r \in Runs |-> <<>>]
    /\ fullLine = [r \in Runs |-> <<>>]
    /\ inputLength = [r \in Runs |-> 0]
    /\ stdinRead = [r \in Runs |-> FALSE]
    /\ s_globalRNG = [r \in Runs |-> UnkeyedRNG]
    /\ securityIndex = [r \in Runs |-> 0]
    /\ scheme = [r \in Runs |-> 0]
    /\ description = [r \in Runs |-> <<>>]
    /\ keyBits = [r \in Runs |-> 0]
    /\ fail = [r \in Runs |-> FALSE]
    /\ clock = [r \in Runs |-> 0]
    /\ cout = [r \in Runs |-> <<>>]
    /\ draws = [r \in Runs |-> <<>>]
    /\ exitStatus = [r \in Runs |-> -1]

\* one run of the harness (the second process is never started)
Init ==
    /\ \E a \in ArgvSet : argv = (1 :> a) @@ (2 :> <<>>)
    /\ \E i \in StdinSet : stdin = (1 :> i) @@ (2 :> <<>>)
    /\ \E f \in Faults : fault = (1 :> f) @@ (2 :> NoFault)
    /\ \E c \in CostSet : opCost = (1 :> c) @@ (2 :> [sign |-> 0, verify |-> 0])
    /\ InitRun((1 :> "main") @@ (2 :> "off"))

Step(r) ==
    \/ Main_ArgCheck(r)
    \/ Main_ReadInput(r)
    \/ Main_SeedRNG(r)
    \/ Main_Lookup(r)
    \/ ProfileSignatureSchemes(r)
    \/ ValidateRSA(r)
    \/ ValidateNR(r)
    \/ ValidateDSA(r)
    \/ ValidateLUC(r)
    \/ ValidateLUC_DL(r)
    \/ ValidateRabin(r)
    \/ ValidateRW(r)
    \/ ValidateECDSA(r)
    \/ ProfileSignatureValidate_Validate(r)
    \/ ProfileSignatureValidate_Sign(r)
    \/ ProfileSignatureValidate_Verify(r)
    \/ Main_Return(r)

Next == \E r \in Runs : Step(r)

Spec == Init /\ [][Next]_vars

\* two runs of the harness, one after the other, against the same library
PairFaults == { NoFault, [scheme |-> 2, step |-> "pub"], [scheme |-> 5, step |-> "priv"],
                [scheme |-> 8, step |-> "verify"] }

InitPair ==
    /\ \E s1 \in SeedArgs, s2 \in PairSeedArgs, l2 \in { <<"1","2","8">>, <<"9","9","9">> } :
           argv = (1 :> << <<"1","2","8">>, s1 >>) @@ (2 :> <<l2, s2>>)
    /\ \E i \in { <<>>, <<"h","e","l","l","o">> } :
           stdin = (1 :> <<"h","e","l","l","o">>) @@ (2 :> i)
    /\ \E f \in PairFaults : fault = (1 :> f) @@ (2 :> f)
    /\ \E c1 \in CostSet, c2 \in CostSet : opCost = (1 :> c1) @@ (2 :> c2)
    /\ InitRun((1 :> "main") @@ (2 :> "main"))

SpecPair == InitPair /\ [][Next]_vars

(***************************************************************************)
(* Reading the output back: the fields of a line, decimal numbers.         *)
(***************************************************************************)
RECURSIVE SplitFrom(_, _, _)
SplitFrom(s, cur, acc) ==
    IF s = <<>> THEN Append(acc, cur)
    ELSE IF Head(s) = "," THEN SplitFrom(Tail(s), <<>>, Append(acc, cur))
    ELSE SplitFrom(Tail(s), Append(cur, Head(s)), acc)

Fields(line) == SplitFrom(line, <<>>, <<>>)

IsNat(f) == f # <<>> /\ \A i \in 1..Len(f) : IsDigit(f[i])

RECURSIVE ParseNat(_)
ParseNat(f) ==
    IF f = <<>> THEN 0
    ELSE ParseNat(SubSeq(f, 1, Len(f) - 1)) * 10 + DigitValue(f[Len(f)])

SchemeNames == << <<"R","S","A">>, <<"N","R">>, <<"D","S","A">>, <<"L","U","C">>,
                  <<"L","U","C","-","D","L">>, <<"R","a","b","i","n">>, <<"R","W">>,
                  <<"E","C","D","S","A">> >>

SignOp == <<"s","i","g","n">>

VerifyOp == <<"v","e","r","i","f","y">>

IsCSVLine(line) == Len(Fields(line)) = 6

\* line i of a run's output is the record of scheme k, operation op
IsRecordOf(line, k, op) ==
    /\ IsCSVLine(line)
    /\ Fields(line)[1] = SchemeNames[k]
    /\ Fields(line)[5] = op

Live == {r \in Runs : pc[r] # "off"}

\* the run has left the key validation step of scheme s behind
PastValidate(r, s) ==
    scheme[r] > s \/ (scheme[r] = s /\ pc[r] \notin {"adapter", "validate"})

\* the run has left the verify step of scheme s behind
PastVerify(r, s) ==
    scheme[r] > s \/ (scheme[r] = s /\ pc[r] \notin {"adapter", "validate", "sign", "verify"})

(***************************************************************************)
(* Properties.                                                             *)
(***************************************************************************)

\* C1: once main has resolved the security level, the index is 0, 1, 2, 3, 4
\* for a strength of 80, 112, 128, 192, 256 and 0 for every other integer; the
\* fallback signals no error: nothing is printed, the run goes on into the
\* driver and, with a working library, ends with exit status 0.
C1_IndexLookup ==
    \A r \in Live :
        /\ pc[r] \notin {"main", "read", "seed", "lookup", "exited"} =>
              securityIndex[r] = CASE securityLevel[r] = 80 -> 0
                                   [] securityLevel[r] = 112 -> 1
                                   [] securityLevel[r] = 128 -> 2
                                   [] securityLevel[r] = 192 -> 3
                                   [] securityLevel[r] = 256 -> 4
                                   [] OTHER -> 0
        /\ (pc[r] = "driver" /\ scheme[r] = 0) => (exitStatus[r] = -1 /\ cout[r] = <<>>)
        /\ (Terminated(r) /\ Len(argv[r]) = 2 /\ fault[r] = NoFault) =>
              (pc[r] = "done" /\ exitStatus[r] = 0)

C1_Witness ==
    /\ pc[1] = "done" /\ securityLevel[1] = 256 /\ securityIndex[1] = 4

\* C2: the CSV lines of a run come out in the declared order, a sign line and
\* then a verify line per scheme (line i belongs to scheme ceil(i/2)), and a
\* run in which every validation and verification succeeds ends with exactly
\* 16 of them, whatever the security level index and the input length.
C2_SixteenLinesInOrder ==
    \A r \in Live :
        Len(argv[r]) = 2 =>
            /\ \A i \in 1..Len(cout[r]) :
                   IsRecordOf(cout[r][i], (i + 1) \div 2,
                              IF i % 2 = 1 THEN SignOp ELSE VerifyOp)
            /\ Len(cout[r]) <= 16
            /\ pc[r] \in {"mainret", "done"} => Len(cout[r]) = 16
            /\ (Terminated(r) /\ fault[r] = NoFault) => Len(cout[r]) = 16

C2_Witness ==
    /\ pc[1] = "done" /\ inputLength[1] = 0 /\ securityIndex[1] = 4
    /\ Len(cout[1]) = 16
    /\ IsRecordOf(cout[1][16], 8, VerifyOp)

\* C3 (as claimed): when the verifier rejects the signature, the run aborts
\* and no verify line of that scheme has been written.
C3_NoVerifyLineOnReject ==
    \A r \in Live :
        (pc[r] = "aborted" /\ fault[r].step = "verify") =>
            \A i \in 1..Len(cout[r]) : ~IsRecordOf(cout[r][i], scheme[r], VerifyOp)

\* C3 (amended): the verify record is written as soon as VerifyMessage has
\* returned, before its result is asserted: when the verifier rejects the
\* signature of scheme s, the output ends with the sign line and the verify
\* line of s (2s lines in all), and the run is then aborted within s.
C3_VerifyLineThenAbort ==
    \A r \in Live :
        (fault[r].step = "verify" /\ PastVerify(r, fault[r].scheme)) =>
            LET s == fault[r].scheme
            IN  /\ pc[r] = "aborted" /\ exitStatus[r] = SIGABRT /\ scheme[r] = s
                /\ fail[r]
                /\ Len(cout[r]) = 2 * s
                /\ IsRecordOf(cout[r][2 * s - 1], s, SignOp)
                /\ IsRecordOf(cout[r][2 * s], s, VerifyOp)

C3_Witness ==
    /\ pc[1] = "aborted" /\ fault[1] = [scheme |-> 3, step |-> "verify"]
    /\ Len(cout[1]) = 6 /\ IsRecordOf(cout[1][6], 3, VerifyOp)

\* C4: when the key validation of the verifier or of the signer of scheme s
\* fails, the run is aborted before signing: the output is exactly the 2(s-1)
\* lines of the earlier schemes, no line of s or of a later scheme exists, s
\* has drawn nothing for signing and no later scheme has drawn anything.
C4_ValidationFailureAborts ==
    \A r \in Live :
        (fault[r].step \in {"pub", "priv"} /\ PastValidate(r, fault[r].scheme)) =>
            LET s == fault[r].scheme
            IN  /\ pc[r] = "aborted" /\ exitStatus[r] = SIGABRT /\ scheme[r] = s
                /\ Len(cout[r]) = 2 * (s - 1)
                /\ \A i \in 1..Len(cout[r]) :
                       IsRecordOf(cout[r][i], (i + 1) \div 2,
                                  IF i % 2 = 1 THEN SignOp ELSE VerifyOp)
                /\ \A i \in 1..Len(draws[r]) :
                       /\ draws[r][i].by <= s
                       /\ draws[r][i].by = s => draws[r][i].what[1] # "sign"

C4_Witness ==
    /\ pc[1] = "aborted" /\ fault[1] = [scheme |-> 4, step |-> "priv"]
    /\ Len(cout[1]) = 6 /\ IsRecordOf(cout[1][6], 3, VerifyOp)

\* the key generation requests of a run: <<adapter, size>>
KeygenOf(r) ==
    { <<draws[r][i].by, draws[r][i].what[2]>> :
          i \in {j \in 1..Len(draws[r]) : draws[r][j].what[1] = "keygen"} }

\* C5 (as claimed): NR, DSA and LUC-DL generate their key with the subgroup
\* size of the table row, RSA, LUC, Rabin and RW with its factorization size.
C5_FamilyMagnitudes ==
    \A r \in Live : \A g \in KeygenOf(r) :
        /\ g[1] \in {2, 3, 5} => g[2] = finiteFieldSubgroupSizes[securityIndex[r]]
        /\ g[1] \in {1, 4, 6, 7} => g[2] = factorizationGroupSizes[securityIndex[r]]

\* C5 (amended): RSA, LUC, Rabin and RW generate their key with the
\* factorization size of the table row; of the discrete-log adapters only NR
\* uses the subgroup size, DSA uses the factorization size and LUC-DL the
\* finite-field size (ECDSA generates nothing).
C5_ActualMagnitudes ==
    \A r \in Live :
        /\ \A g \in KeygenOf(r) :
               /\ g[1] \in {1, 3, 4, 6, 7} => g[2] = factorizationGroupSizes[securityIndex[r]]
               /\ g[1] = 2 => g[2] = finiteFieldSubgroupSizes[securityIndex[r]]
               /\ g[1] = 5 => g[2] = finiteFieldSizes[securityIndex[r]]
               /\ g[1] # 8
        /\ \A k \in 1..7 : PastValidate(r, k) => \E g \in KeygenOf(r) : g[1] = k

C5_Witness ==
    /\ pc[1] = "done" /\ securityIndex[1] = 3
    /\ KeygenOf(1) = { <<1, 7680>>, <<2, 384>>, <<3, 7680>>, <<4, 7680>>,
                       <<5, 7680>>, <<6, 7680>>, <<7, 7680>> }

\* C6: every CSV line has exactly six comma-separated fields: the algorithm
\* name, the strength of the resolved table row (not the raw argument), a
\* decimal parameter magnitude, the message length in bytes, sign or verify,
\* and a non-negative decimal number of nanoseconds; strength 128 with a
\* 5-byte input gives a first line that begins RSA,128,3072,5,sign,
C6_LineShape ==
    \A r \in Live :
        Len(argv[r]) = 2 =>
            /\ \A i \in 1..Len(cout[r]) :
                   LET f == Fields(cout[r][i])
                   IN  /\ Len(f) = 6
                       /\ \E k \in 1..8 : f[1] = SchemeNames[k]
                       /\ IsNat(f[2]) /\ ParseNat(f[2]) = securityLevels[securityIndex[r]]
                       /\ ParseNat(f[2]) \in {80, 112, 128, 192, 256}
                       /\ IsNat(f[3])
                       /\ IsNat(f[4]) /\ ParseNat(f[4]) = Len(fullLine[r])
                       /\ f[5] \in {SignOp, VerifyOp}
                       /\ IsNat(f[6]) /\ ParseNat(f[6]) >= 0
            /\ (securityLevel[r] = 128 /\ Len(fullLine[r]) = 5 /\ cout[r] # <<>>) =>
                   SubSeq(cout[r][1], 1, 20) =
                       <<"R","S","A",",","1","2","8",",","3","0","7","2",",","5",",",
                         "s","i","g","n",",">>

C6_Witness ==
    /\ pc[1] = "done" /\ securityLevel[1] = 999 /\ opCost[1].sign = 7
    /\ Len(fullLine[1]) = 5
    /\ Fields(cout[1][1]) = << <<"R","S","A">>, <<"8","0">>, <<"1","0","2","4">>, <<"5">>,
                               SignOp, <<"7">> >>

\* C7: the shared generator is keyed exactly once per run and before any
\* draw; nothing re-keys it, so the draws of all adapters are consecutive
\* requests to the generator as main seeded it, and every adapter draws.
C7_SeededOnceBeforeDraws ==
    \A r \in Live :
        /\ s_globalRNG[r].keyed <= 1
        /\ pc[r] \in {"lookup", "driver", "adapter", "validate", "sign", "verify",
                      "mainret", "done", "aborted"} => s_globalRNG[r].keyed = 1
        /\ draws[r] # <<>> => s_globalRNG[r].keyed = 1
        /\ \A i \in 1..Len(draws[r]) :
               /\ draws[r][i].keyed = 1
               /\ draws[r][i].pos = i - 1
               /\ draws[r][i].key = s_globalRNG[r].key
               /\ draws[r][i].iv = s_globalRNG[r].iv
               /\ i > 1 => draws[r][i - 1].by <= draws[r][i].by
        /\ s_globalRNG[r].pos = Len(draws[r])
        /\ pc[r] = "done" => \A k \in 1..8 : \E i \in 1..Len(draws[r]) : draws[r][i].by = k

C7_Witness ==
    /\ pc[1] = "done" /\ s_globalRNG[1].keyed = 1 /\ Len(draws[1]) = 31
    /\ draws[1][1].by = 1 /\ draws[1][31].by = 8 /\ draws[1][31].pos = 30

\* the first 16 bytes of a seed string, short strings padded with zero bytes
Pad16(str) == [i \in 1..16 |-> IF i <= Len(str) THEN str[i] ELSE "NUL"]

\* a run's lines without their last field
WithoutElapsed(lines) == [i \in 1..Len(lines) |-> SubSeq(Fields(lines[i]), 1, 5)]

\* C8: two completed runs against the same library with the same security
\* level argument, the same input and seeds that agree in their first 16
\* bytes (after padding) make the same sequence of draws, write the same CSV
\* lines up to the elapsed field and end the same way.
C8_Deterministic ==
    ( /\ Terminated(1) /\ Terminated(2) /\ pc[1] # "off" /\ pc[2] # "off"
      /\ Len(argv[1]) = 2 /\ Len(argv[2]) = 2
      /\ argv[1][1] = argv[2][1]
      /\ Pad16(argv[1][2]) = Pad16(argv[2][2])
      /\ stdin[1] = stdin[2]
      /\ fault[1] = fault[2] )
    => /\ draws[1] = draws[2]
       /\ WithoutElapsed(cout[1]) = WithoutElapsed(cout[2])
       /\ pc[1] = pc[2] /\ exitStatus[1] = exitStatus[2]

C8_Witness ==
    /\ pc[1] = "done" /\ pc[2] = "done"
    /\ argv[1][1] = argv[2][1] /\ stdin[1] = stdin[2]
    /\ argv[1][2] # argv[2][2] /\ Pad16(argv[1][2]) = Pad16(argv[2][2])
    /\ cout[1] # cout[2]
    /\ draws[1] = draws[2] /\ Len(draws[1]) = 31
    /\ WithoutElapsed(cout[1]) = WithoutElapsed(cout[2])

\* C9: with a wrong argument count the run prints the usage text and exits
\* with status 1, and nothing else happens: standard input is not read, the
\* generator is not keyed, no adapter runs, no CSV line is written.
C9_UsageError ==
    \A r \in Live :
        Len(argv[r]) + 1 # 3 =>
            /\ pc[r] \in {"main", "exited"}
            /\ ~stdinRead[r] /\ fullLine[r] = <<>>
            /\ s_globalRNG[r] = UnkeyedRNG /\ draws[r] = <<>>
            /\ scheme[r] = 0
            /\ \A i \in 1..Len(cout[r]) : ~IsCSVLine(cout[r][i])
            /\ pc[r] = "main" => (cout[r] = <<>> /\ exitStatus[r] = -1)
            /\ pc[r] = "exited" =>
                   /\ exitStatus[r] = 1
                   /\ Len(cout[r]) = 3
                   /\ SubSeq(cout[r][1], 1, 6) = <<"u","s","a","g","e",":">>

C9_Witness ==
    /\ pc[1] = "exited" /\ exitStatus[1] = 1 /\ Len(argv[1]) = 3
    /\ Len(cout[1]) = 3 /\ ~stdinRead[1]

\* C10 (as claimed): the parameter magnitude written into an adapter's
\* description is the size the adapter gave to its key generator.
C10_DescriptionMatchesKey ==
    \A r \in Live :
        pc[r] \in {"validate", "sign", "verify"} =>
            ParseNat(Fields(description[r])[3]) = keyBits[r]

====
